---- MODULE Spec2Model ----
(***************************************************************************)
(* Model of graphql/schemabuilder/types.go: the Object descriptor, its     *)
(* Methods registry, the FieldFunc and Key registration operations, the    *)
(* NonNullable option and the PaginatedFields list.                        *)
(*                                                                         *)
(* A panic of FieldFunc is modelled as an outcome of the call: the Object  *)
(* keeps whatever the call had written before panicking, and a caller that *)
(* recovers can go on using it.                                            *)
(***************************************************************************)
EXTENDS Integers, Sequences, FiniteSets, TLC

\* ------------------------------------------------------------------ bounds
\* Longest variadic options list passed to one FieldFunc call.
MaxOptions == 2
\* Longest PaginatedFields list.
MaxPaginated == 2

\* ------------------------------------------------------------------ inputs
\* Field names passed to FieldFunc and Key.
Names == {"fullName", "age"}
\* Field functions passed to FieldFunc (opaque interface{} values).
Fns == {"f1", "f2"}
\* Function stored by a descriptor that was put into Methods directly.
DirectFn == "m0"
\* Pagination descriptors appended to PaginatedFields: one name, two functions,
\* so that a repeated name is appended and the order is visible.
PaginationObject == {[Name |-> "items", Fn |-> "p1"], [Name |-> "items", Fn |-> "p2"]}

SeqsUpTo(S, n) == UNION {[1..k -> S] : k \in 0..n}

\* ------------------------------------------------------------------ method
\* &method{Fn: f}: MarkedNonNullable has the zero value.
method(f) == [MarkedNonNullable |-> FALSE, Fn |-> f]

\* func NonNullable(m *method) { m.MarkedNonNullable = true }
NonNullable(m) == [m EXCEPT !.MarkedNonNullable = TRUE]

\* The values of type FieldFuncOption (func(*method)).  The package defines
\* NonNullable; "Nullable" and "Toggle" stand for further functions of the
\* same shape acting on the same attribute (one writes it, one reads and
\* rewrites it), so that the order of application can be observed.
SourceOptions == {"NonNullable"}
FieldFuncOption == {"NonNullable", "Nullable", "Toggle"}

\* option(m): the call of one option on the descriptor.
CallOption(option, m) ==
    CASE option = "NonNullable" -> NonNullable(m)
      [] option = "Nullable"    -> [m EXCEPT !.MarkedNonNullable = FALSE]
      [] option = "Toggle"      -> [m EXCEPT !.MarkedNonNullable = ~m.MarkedNonNullable]

\* Variant: the options are applied from the last one to the first.
RECURSIVE ApplyOptions_Reversed(_, _)
ApplyOptions_Reversed(m, options) ==
    IF options = << >> THEN m
    ELSE ApplyOptions_Reversed(CallOption(options[Len(options)], m),
                               SubSeq(options, 1, Len(options) - 1))

\* for _, option := range options { option(m) }
RECURSIVE ApplyOptions(_, _)
ApplyOptions(m, options) ==
    IF options = << >> THEN m
    ELSE ApplyOptions(CallOption(Head(options), m), Tail(options))

\* ------------------------------------------------------------------ Methods
\* A Methods value: the nil map, or a map from names to descriptors.
EmptyEntries == [x \in {} |-> method(DirectFn)]
NilMethods == [isNil |-> TRUE, entries |-> EmptyEntries]
\* make(Methods)
MakeMethods == [isNil |-> FALSE, entries |-> EmptyEntries]
\* s.Methods[name] = m
MapInsert(entries, name, m) ==
    [x \in (DOMAIN entries) \cup {name} |-> IF x = name THEN m ELSE entries[x]]
\* Methods written directly by the host (the deprecated path).
DirectMethods ==
    [isNil |-> FALSE,
     entries |-> [x \in {"age"} |-> [MarkedNonNullable |-> TRUE, Fn |-> DirectFn]]]

\* ------------------------------------------------------------------ Object
\* The Object values a host can construct before any registration call.
Object ==
    [Name : {"User"}, Description : {"a user"}, Type : {"User"},
     Methods : {NilMethods, MakeMethods, DirectMethods},
     PaginatedFields : {<< >>}, key : {""}]

\* Variant: the options are not applied to the new descriptor.
FieldFuncOp_IgnoreOptions(o, name, f, options) ==
    LET o1 == IF o.Methods.isNil THEN [o EXCEPT !.Methods = MakeMethods] ELSE o
    IN  IF name \in DOMAIN o1.Methods.entries
        THEN [s |-> o1, panic |-> TRUE]
        ELSE [s |-> [o1 EXCEPT !.Methods.entries = MapInsert(@, name, method(f))],
              panic |-> FALSE]

\* Variant: no duplicate check, a second registration overwrites the first.
FieldFuncOp_Overwrite(o, name, f, options) ==
    LET o1 == IF o.Methods.isNil THEN [o EXCEPT !.Methods = MakeMethods] ELSE o
        m  == ApplyOptions(method(f), options)
    IN  [s |-> [o1 EXCEPT !.Methods.entries = MapInsert(@, name, m)], panic |-> FALSE]

\* Variant: the descriptor is stored before the duplicate check.
FieldFuncOp_StoreThenCheck(o, name, f, options) ==
    LET o1 == IF o.Methods.isNil THEN [o EXCEPT !.Methods = MakeMethods] ELSE o
        m  == ApplyOptions(method(f), options)
    IN  [s |-> [o1 EXCEPT !.Methods.entries = MapInsert(@, name, m)],
         panic |-> name \in DOMAIN o1.Methods.entries]

\* Variant: the non-nullable mark is kept on the registry, not on the
\* descriptor, so marking one field marks its siblings.
FieldFuncOp_SharedMark(o, name, f, options) ==
    LET o1 == IF o.Methods.isNil THEN [o EXCEPT !.Methods = MakeMethods] ELSE o
        m  == ApplyOptions(method(f), options)
    IN  IF name \in DOMAIN o1.Methods.entries
        THEN [s |-> o1, panic |-> TRUE]
        ELSE [s |-> [o1 EXCEPT !.Methods.entries =
                        [x \in (DOMAIN @) \cup {name} |->
                            IF x = name THEN m
                            ELSE [@[x] EXCEPT !.MarkedNonNullable =
                                                 @ \/ m.MarkedNonNullable]]],
              panic |-> FALSE]

\* Variant: lazy initialisation rebuilds the Object around a new registry and
\* forgets the pagination list.
FieldFuncOp_InitDropsPaginated(o, name, f, options) ==
    LET o1 == IF o.Methods.isNil
              THEN [o EXCEPT !.Methods = MakeMethods, !.PaginatedFields = << >>]
              ELSE o
        m  == ApplyOptions(method(f), options)
    IN  IF name \in DOMAIN o1.Methods.entries
        THEN [s |-> o1, panic |-> TRUE]
        ELSE [s |-> [o1 EXCEPT !.Methods.entries = MapInsert(@, name, m)],
              panic |-> FALSE]

\* Variant: the registry is made anew on every call.
FieldFuncOp_AlwaysMake(o, name, f, options) ==
    LET o1 == [o EXCEPT !.Methods = MakeMethods]
        m  == ApplyOptions(method(f), options)
    IN  IF name \in DOMAIN o1.Methods.entries
        THEN [s |-> o1, panic |-> TRUE]
        ELSE [s |-> [o1 EXCEPT !.Methods.entries = MapInsert(@, name, m)],
              panic |-> FALSE]

\* func (s *Object) FieldFunc(name, f, options...): the Object after the call
\* and whether the call panicked.
FieldFuncOp(o, name, f, options) ==
    LET o1 == IF o.Methods.isNil THEN [o EXCEPT !.Methods = MakeMethods] ELSE o
        m  == ApplyOptions(method(f), options)
    IN  IF name \in DOMAIN o1.Methods.entries
        THEN [s |-> o1, panic |-> TRUE]
        ELSE [s |-> [o1 EXCEPT !.Methods.entries = MapInsert(@, name, m)],
              panic |-> FALSE]

\* Variant: only the first Key call is recorded.
KeyOp_FirstWins(o, f) ==
    [s |-> IF o.key = "" THEN [o EXCEPT !.key = f] ELSE o, panic |-> FALSE]

\* Variant: Key rejects a name that is not registered.
KeyOp_Validated(o, f) ==
    IF f \in DOMAIN o.Methods.entries
    THEN [s |-> [o EXCEPT !.key = f], panic |-> FALSE]
    ELSE [s |-> o, panic |-> TRUE]

\* Variant: Key initialises the registry as FieldFunc does.
KeyOp_MakesMethods(o, f) ==
    [s |-> [o EXCEPT !.key = f,
                     !.Methods = IF @.isNil THEN MakeMethods ELSE @],
     panic |-> FALSE]

\* func (s *Object) Key(f string) { s.key = f }
KeyOp(o, f) == [s |-> [o EXCEPT !.key = f], panic |-> FALSE]

\* s.PaginatedFields = append(s.PaginatedFields, p)
AppendOp(o, p) == [s |-> [o EXCEPT !.PaginatedFields = Append(@, p)], panic |-> FALSE]

\* ------------------------------------------------------------------ state
VARIABLES
    s,         \* the Object
    s0,        \* history: the Object as constructed
    last,      \* history: the most recent call and its outcome
    args,      \* history: per name, the f and options of the first FieldFunc call
    dup,       \* history: some FieldFunc call repeated a name already passed
    keyArgs,   \* history: the arguments of the last two Key calls, oldest first
    appended   \* history: the pagination descriptors appended, in order

vars == <<s, s0, last, args, dup, keyArgs, appended>>

NoArgs == [x \in {} |-> [f |-> DirectFn, options |-> << >>]]

InitFrom(objects) ==
    /\ s \in objects
    /\ s0 = s
    /\ last = [op |-> "new", name |-> "", panic |-> FALSE]
    /\ args = NoArgs
    /\ dup = FALSE
    /\ keyArgs = << >>
    /\ appended = << >>

Init == InitFrom(Object)

FieldFuncCall(N, F, O) ==
    \E name \in N, f \in F, options \in SeqsUpTo(O, MaxOptions) :
        LET r == FieldFuncOp(s, name, f, options) IN
        /\ s' = r.s
        /\ last' = [op |-> "FieldFunc", name |-> name, panic |-> r.panic]
        /\ args' = IF name \in DOMAIN args THEN args
                   ELSE [x \in (DOMAIN args) \cup {name} |->
                            IF x = name THEN [f |-> f, options |-> options]
                            ELSE args[x]]
        /\ dup' = (dup \/ name \in DOMAIN args)
        /\ UNCHANGED <<s0, keyArgs, appended>>

FieldFunc == FieldFuncCall(Names, Fns, SourceOptions)

Key ==
    \E f \in Names :
        LET r == KeyOp(s, f) IN
        /\ s' = r.s
        /\ last' = [op |-> "Key", name |-> f, panic |-> r.panic]
        /\ keyArgs' = IF Len(keyArgs) < 2 THEN Append(keyArgs, f)
                      ELSE <<keyArgs[2], f>>
        /\ UNCHANGED <<s0, args, dup, appended>>

AppendPaginatedField ==
    \E p \in PaginationObject :
        /\ Len(s.PaginatedFields) < MaxPaginated
        /\ LET r == AppendOp(s, p) IN
           /\ s' = r.s
           /\ last' = [op |-> "append", name |-> p.Name, panic |-> r.panic]
        /\ appended' = Append(appended, p)
        /\ UNCHANGED <<s0, args, dup, keyArgs>>

Next == FieldFunc \/ Key \/ AppendPaginatedField

Spec == Init /\ [][Next]_vars

\* One field of a freshly constructed Object registered with options drawn
\* from every FieldFuncOption value.
FreshObject == {o \in Object : o.Methods.isNil}

InitOpt == InitFrom(FreshObject)

FieldFuncAnyOption == FieldFuncCall({"age"}, Fns, FieldFuncOption)

NextOpt == FieldFuncAnyOption \/ Key \/ AppendPaginatedField

SpecOpt == InitOpt /\ [][NextOpt]_vars

\* ------------------------------------------------------------------ helpers
Entries == s.Methods.entries
\* The Object was constructed with no Methods entries and no pagination.
Fresh == DOMAIN s0.Methods.entries = {} /\ s0.PaginatedFields = << >>
\* The names whose descriptor was inserted by a FieldFunc call.
Inserted == (DOMAIN args) \ (DOMAIN s0.Methods.entries)

\* ------------------------------------------------------------------ C1
\* C1: after FieldFunc calls with pairwise-distinct names on an Object that
\* started empty, the registry's keys are exactly the names passed, and each
\* descriptor has the Fn of its call and the MarkedNonNullable obtained by
\* applying that call's options to a fresh descriptor.
C1_RegistryMatchesCalls ==
    (Fresh /\ ~dup) =>
        /\ DOMAIN Entries = DOMAIN args
        /\ (DOMAIN args # {} => ~s.Methods.isNil)
        /\ \A n \in DOMAIN args :
              /\ Entries[n].Fn = args[n].f
              /\ Entries[n].MarkedNonNullable =
                    ApplyOptions(method(args[n].f), args[n].options).MarkedNonNullable
              /\ (args[n].options = << >> => Entries[n].MarkedNonNullable = FALSE)

\* The example scenario: fullName with f1, age with f2 and NonNullable, key
\* fullName, no pagination.
C1_Witness ==
    /\ Fresh /\ ~dup
    /\ DOMAIN args = {"fullName", "age"}
    /\ args["fullName"] = [f |-> "f1", options |-> << >>]
    /\ args["age"] = [f |-> "f2", options |-> <<"NonNullable">>]
    /\ Entries["fullName"] = [MarkedNonNullable |-> FALSE, Fn |-> "f1"]
    /\ Entries["age"] = [MarkedNonNullable |-> TRUE, Fn |-> "f2"]
    /\ s.key = "fullName"
    /\ s.PaginatedFields = << >>

\* ------------------------------------------------------------------ C2
\* C2: a FieldFunc call whose name is already a key of the registry panics
\* and leaves the registry exactly as it was.
C2_DuplicatePanicsRegistryKept ==
    [][ (last'.op = "FieldFunc" /\ last'.name \in DOMAIN Entries) =>
            (last'.panic /\ s'.Methods = s.Methods) ]_vars

\* A duplicate call was made on a registry holding two registered fields.
C2_Witness ==
    /\ last.op = "FieldFunc" /\ last.panic
    /\ DOMAIN Entries = Names
    /\ Inserted = Names
    /\ dup

\* ------------------------------------------------------------------ C3
\* C3: a registered field is marked non-nullable if NonNullable was among its
\* call's options and not marked if no option was passed, and a FieldFunc
\* call never changes the mark of any other field of the registry.
C3_MarkOwnCallOnly ==
    \A n \in Inserted :
        /\ (\E i \in 1..Len(args[n].options) : args[n].options[i] = "NonNullable")
              => Entries[n].MarkedNonNullable = TRUE
        /\ args[n].options = << >> => Entries[n].MarkedNonNullable = FALSE

C3_SiblingsKept ==
    [][ last'.op = "FieldFunc" =>
            \A n \in (DOMAIN Entries) \ {last'.name} :
                /\ n \in DOMAIN s'.Methods.entries
                /\ s'.Methods.entries[n].MarkedNonNullable = Entries[n].MarkedNonNullable ]_vars

C3_NonNullablePerField == []C3_MarkOwnCallOnly /\ C3_SiblingsKept

\* An unmarked field was registered first and a marked one after it.
C3_Witness ==
    /\ Inserted = Names
    /\ args["fullName"].options = << >>
    /\ args["age"].options = <<"NonNullable">>
    /\ ~Entries["fullName"].MarkedNonNullable
    /\ Entries["age"].MarkedNonNullable
    /\ last = [op |-> "FieldFunc", name |-> "age", panic |-> FALSE]

\* ------------------------------------------------------------------ C4
\* C4: the recorded key is the argument of the most recent Key call, and is
\* empty if Key was never called.
C4_KeyLastWriteWins ==
    s.key = IF keyArgs = << >> THEN "" ELSE keyArgs[Len(keyArgs)]

\* Key("fullName") then Key("age"), with other calls after them.
C4_Witness ==
    /\ keyArgs = <<"fullName", "age">>
    /\ s.key = "age"
    /\ last.op = "FieldFunc"

\* ------------------------------------------------------------------ C5
\* C5: in every reachable state Key completes without panicking and records
\* its argument, whether or not the name is registered, and Key and FieldFunc
\* give the same Object in either order.
C5_KeyNeverFailsNorValidates ==
    /\ last.op = "Key" => (~last.panic /\ s.key = last.name)
    /\ \A k \in Names :
          /\ ~KeyOp(s, k).panic
          /\ KeyOp(s, k).s.key = k
          /\ \A name \in Names, f \in Fns, options \in SeqsUpTo(SourceOptions, MaxOptions) :
                LET ff == FieldFuncOp(s, name, f, options)
                    kf == FieldFuncOp(KeyOp(s, k).s, name, f, options)
                IN  /\ KeyOp(ff.s, k).s = kf.s
                    /\ ~KeyOp(ff.s, k).panic
                    /\ ff.panic = kf.panic

\* Key was called with a name the non-empty registry does not contain.
C5_Witness ==
    /\ last.op = "Key"
    /\ ~s.Methods.isNil
    /\ DOMAIN Entries # {}
    /\ last.name \notin DOMAIN Entries
    /\ s.key = last.name

\* ------------------------------------------------------------------ C6
\* C6: PaginatedFields is the sequence of the appended descriptors in the
\* order they were appended, repeated names included, and no FieldFunc or Key
\* call changes it.
C6_AppendOrder == s.PaginatedFields = s0.PaginatedFields \o appended

C6_OtherCallsKeepList ==
    [][ last'.op \in {"FieldFunc", "Key"} =>
            s'.PaginatedFields = s.PaginatedFields ]_vars

C6_PaginatedAppendOnly == []C6_AppendOrder /\ C6_OtherCallsKeepList

\* Two descriptors of the same name were appended, then a first FieldFunc
\* call initialised the registry.
C6_Witness ==
    /\ s.PaginatedFields = <<[Name |-> "items", Fn |-> "p2"], [Name |-> "items", Fn |-> "p1"]>>
    /\ last.op = "FieldFunc" /\ ~last.panic
    /\ s0.Methods.isNil
    /\ Cardinality(DOMAIN Entries) = 1

\* ------------------------------------------------------------------ C7
\* The value the options leave in MarkedNonNullable when they run one after
\* another in the order passed, each on the result of the one before.
InOrder(options) ==
    LET v[i \in 0..Len(options)] ==
            IF i = 0 THEN FALSE
            ELSE CASE options[i] = "NonNullable" -> TRUE
                   [] options[i] = "Nullable"    -> FALSE
                   [] options[i] = "Toggle"      -> ~v[i - 1]
    IN  v[Len(options)]

\* C7: the stored descriptor is the one produced by running the options in
\* the order passed, each on the result of the previous one; when options
\* write the same attribute the value of the later one is stored.
C7_OptionsInOrderLastWins ==
    \A n \in Inserted :
        LET options == args[n].options
            k == Len(options)
        IN  /\ Entries[n].Fn = args[n].f
            /\ Entries[n].MarkedNonNullable = InOrder(options)
            /\ (k > 0 /\ options[k] = "NonNullable") => Entries[n].MarkedNonNullable
            /\ (k > 0 /\ options[k] = "Nullable") => ~Entries[n].MarkedNonNullable

\* NonNullable then Nullable was passed: the later write is stored.
C7_Witness ==
    /\ "age" \in Inserted
    /\ args["age"].options = <<"NonNullable", "Nullable">>
    /\ Entries["age"].MarkedNonNullable = FALSE

\* ------------------------------------------------------------------ C8
\* C8: once a descriptor is in the registry, no later call removes it or
\* changes its Fn or MarkedNonNullable.
C8_DescriptorImmutable ==
    [][ \A n \in DOMAIN Entries :
            /\ n \in DOMAIN s'.Methods.entries
            /\ s'.Methods.entries[n] = Entries[n] ]_vars

\* A registered descriptor has since seen a Key call, an append and a failing
\* duplicate registration.
C8_Witness ==
    /\ last.op = "FieldFunc" /\ last.panic
    /\ last.name \in Inserted
    /\ keyArgs # << >>
    /\ appended # << >>
    /\ Entries[last.name].Fn = args[last.name].f

\* ------------------------------------------------------------------ C9
\* C9: a FieldFunc call leaves key, PaginatedFields, Name, Description and
\* Type unchanged; a Key call leaves Methods (its nil-ness included),
\* PaginatedFields, Name, Description and Type unchanged.
C9_FrameOfEachCall ==
    [][ /\ last'.op = "FieldFunc" =>
              /\ s'.key = s.key
              /\ s'.PaginatedFields = s.PaginatedFields
              /\ s'.Name = s.Name
              /\ s'.Description = s.Description
              /\ s'.Type = s.Type
        /\ last'.op = "Key" =>
              /\ s'.Methods = s.Methods
              /\ s'.PaginatedFields = s.PaginatedFields
              /\ s'.Name = s.Name
              /\ s'.Description = s.Description
              /\ s'.Type = s.Type ]_vars

\* Key was called on a named Object with pagination whose registry is nil.
C9_Witness ==
    /\ last.op = "Key"
    /\ s.Methods.isNil
    /\ s.Name = "User"
    /\ s.PaginatedFields # << >>
    /\ s.key # ""

\* ------------------------------------------------------------------ C10
\* C10: FieldFunc makes a registry only when Methods is nil; on an Object
\* whose Methods was written directly it keeps every entry found there and
\* panics on a name found there.
C10_DirectEntriesKept ==
    /\ \A n \in DOMAIN s0.Methods.entries :
          n \in DOMAIN Entries /\ Entries[n] = s0.Methods.entries[n]
    /\ (last.op = "FieldFunc" /\ last.name \in DOMAIN s0.Methods.entries) => last.panic

C10_MakeOnlyWhenNil ==
    [][ last'.op = "FieldFunc" =>
            /\ ~s'.Methods.isNil
            /\ IF s.Methods.isNil
               THEN ~last'.panic /\ DOMAIN s'.Methods.entries = {last'.name}
               ELSE /\ DOMAIN s'.Methods.entries \subseteq (DOMAIN Entries) \cup {last'.name}
                    /\ \A n \in DOMAIN Entries :
                          n \in DOMAIN s'.Methods.entries /\ s'.Methods.entries[n] = Entries[n] ]_vars

C10_LazyInitKeepsRegistry == []C10_DirectEntriesKept /\ C10_MakeOnlyWhenNil

\* On directly written Methods a new name was added and the old one refused.
C10_Witness ==
    /\ s0.Methods = DirectMethods
    /\ last = [op |-> "FieldFunc", name |-> "age", panic |-> TRUE]
    /\ DOMAIN Entries = Names
    /\ Entries["age"] = [MarkedNonNullable |-> TRUE, Fn |-> DirectFn]
====
